---- MODULE Spec2Model ----
(***************************************************************************)
(* calabi: a scanner that polls the GitHub status feed and, on an          *)
(* incident, places bets on Manifold contracts registered for the day.     *)
(*                                                                         *)
(*   main.rs             the scan loop (Orchestrator), the status poller   *)
(*                       and the bet request                               *)
(*   github_status.rs    the status poller as a library function           *)
(*   manifold_markets.rs IncidentType, the venue client, the registry and  *)
(*                       its Updater                                       *)
(***************************************************************************)
EXTENDS Integers, Sequences, FiniteSets, TLC

\* ------------------------------------------------------------------------
\* Program constants
\* ------------------------------------------------------------------------

\* main.rs:27-39
TARGET_A ==
    [month |-> 8, day |-> 29,
     contract_id |-> "5kFCX8YfjxNCYTLXMzT9",
     red_contract_id |-> "o2AilVT2jmmef8YIGkzC"]

TARGET_B ==
    [month |-> 8, day |-> 30,
     contract_id |-> "hsXruT9P074SyAgWUX1L",
     red_contract_id |-> "vYSLqU2aGD6ZTdtUQUKY"]

TARGETS == <<TARGET_A, TARGET_B>>

\* Every contract id the scan loop can name in a bet request.
ContractIds ==
    {TARGETS[i].contract_id : i \in 1..Len(TARGETS)}
        \cup {TARGETS[i].red_contract_id : i \in 1..Len(TARGETS)}

\* main.rs:62, the "amount" of the bet payload
BET_AMOUNT == 80

\* main.rs:174, `for _ in 0..5`
BETS_PER_TARGET == 5

\* backoff::ExponentialBackoff::default(), main.rs:116, in milliseconds:
\* initial interval 500, randomization factor 0.5, multiplier 1.5,
\* max interval 60 s, max elapsed time 15 min.
INITIAL_INTERVAL_MILLIS == 500
RANDOMIZATION_PERCENT == 50
MULTIPLIER_PERCENT == 150
MAX_INTERVAL_MILLIS == 60000
MAX_ELAPSED_TIME_MILLIS == 900000

\* Resolution, in milliseconds, at which the model reads the backoff's clock.
\* The time a GET takes is an input of the program; the model draws it so
\* that the elapsed time read after each retry is a multiple of this.
ClockResolution == 15000

\* ------------------------------------------------------------------------
\* Inputs
\* ------------------------------------------------------------------------

\* The calendar days the clock (Utc::now(), main.rs:157) passes through, in
\* order: a day matching no target, a day of TARGET_A's month only, the days
\* of TARGET_A and TARGET_B, and a day sharing TARGET_A's day of month only.
Calendar ==
    << <<7, 15>>, <<8, 15>>, <<8, 29>>, <<8, 30>>, <<9, 29>> >>

\* status.indicator strings the feed can send (main.rs:52): the four of the
\* documented vocabulary and one outside it.
Indicators == {"none", "minor", "major", "critical", "maintenance"}

\* The ways one GET of the status feed can end without a decoded body:
\* a transport error (main.rs:99), a non-success status other than 429
\* (main.rs:108), an undecodable body (main.rs:113).
PermanentFailures == {"transport", "status", "decode"}

\* manifold_markets.rs:24-25
IBLUE_CREATOR_ID == "HBlWMFF8XkcatdnIfNt0RPoCrXy1"
ALEXTES_CREATOR_ID == "fwGK5b9peFQbclczNeQdgCtjlYT2"

\* Markets the venue can list (manifold_markets.rs:127-131). A question is
\* given by what the Updater reads from it: whether it contains "Will GitHub
\* have any incident" (any_phrase) or "Will GitHub have a red incident"
\* (red_phrase), and what day_from_question and month_from_question return
\* for it, 0 standing for None. CoreMarkets: a target of each class, a
\* market of another author and a question without a day.
CoreMarkets ==
    {[id |-> "m_any", creator_id |-> IBLUE_CREATOR_ID,
      any_phrase |-> TRUE, red_phrase |-> FALSE, day |-> 29, month |-> 8],
     [id |-> "m_red", creator_id |-> ALEXTES_CREATOR_ID,
      any_phrase |-> FALSE, red_phrase |-> TRUE, day |-> 30, month |-> 8],
     [id |-> "m_other", creator_id |-> "someone else",
      any_phrase |-> TRUE, red_phrase |-> FALSE, day |-> 30, month |-> 8],
     [id |-> "m_noday", creator_id |-> IBLUE_CREATOR_ID,
      any_phrase |-> TRUE, red_phrase |-> FALSE, day |-> 0, month |-> 8]}

\* Further markets: a question without a month, a trusted author's market
\* without a recognized phrase, and the contract id of m_any under another
\* question, with the other phrase and the next day.
MarketUniverse ==
    CoreMarkets \cup
    {[id |-> "m_nomonth", creator_id |-> ALEXTES_CREATOR_ID,
      any_phrase |-> FALSE, red_phrase |-> TRUE, day |-> 30, month |-> 0],
     [id |-> "m_nophrase", creator_id |-> IBLUE_CREATOR_ID,
      any_phrase |-> FALSE, red_phrase |-> FALSE, day |-> 30, month |-> 8],
     [id |-> "m_any", creator_id |-> ALEXTES_CREATOR_ID,
      any_phrase |-> FALSE, red_phrase |-> TRUE, day |-> 30, month |-> 8]}

\* Longest listing the venue returns.
MaxListing == 2

\* What fetch_markets can return in Ok(..) (manifold_markets.rs:145, 171).
RECURSIVE ListingsOfLen(_)
ListingsOfLen(n) ==
    IF n = 0 THEN {<<>>}
    ELSE {Append(l, m) : l \in ListingsOfLen(n - 1), m \in MarketUniverse}

Listings == UNION {ListingsOfLen(n) : n \in 0..MaxListing}

\* The value of `target` while no market is being examined.
NoTarget ==
    [contract_id |-> "", day |-> 0, incident_type |-> "", month |-> 0]

VARIABLES
    clock,              \* index in Calendar of the current UTC date
    pc,                 \* position of main
    attempts,           \* GETs issued by the current get_incident_status call
    reply,              \* how the latest GET of the current call ended
    current_interval,   \* ExponentialBackoff.current_interval, ms
    elapsed,            \* time since the backoff's start_time, ms
    indicator,          \* response.status.indicator
    today,              \* `today` of main.rs:157, <<month, day>>
    target_i,           \* position of `for target in TARGETS`
    handles,            \* the Vec of bet futures handed to try_join_all
    failure,            \* the error main returned with, "" while running
    dispatched,         \* bet requests sent to the venue, per contract id
    placed,             \* bet requests the venue accepted, per contract id
    wagered,            \* contract ids whose batch was joined successfully
    process,            \* "running", or "exited" once a task has ended
    upc,                \* position of update_targets
    lock,               \* holder of the Mutex around TargetMarkets
    target_markets,     \* TargetMarkets: the registered targets
    markets,            \* `markets` of manifold_markets.rs:247
    market_i,           \* position of `for market in markets`
    target,             \* `target` of manifold_markets.rs:253, 282
    waiters,            \* tasks queued on the Mutex, first come first
    fetch_error,        \* the error update_targets returned with, or ""
    prune_today,        \* `today` of manifold_markets.rs:223, <<month, day>>
    pruned,             \* the entries the latest retain() dropped
    spc                 \* position of the registry reader of the scanner

vars ==
    <<clock, pc, attempts, reply, current_interval, elapsed, indicator, today,
      target_i, handles, failure, dispatched, placed, wagered, process, upc,
      lock, target_markets, markets, market_i, target, waiters, fetch_error,
      prune_today, pruned, spc>>

scanVars ==
    <<pc, attempts, reply, current_interval, elapsed, indicator, today,
      target_i, handles, failure, dispatched, placed, wagered>>
updVars ==
    <<upc, lock, target_markets, markets, market_i, target, waiters,
      fetch_error, prune_today, pruned, spc>>

pollVars == <<attempts, reply, current_interval, elapsed>>
betVars == <<handles, dispatched, placed, wagered>>

\* ------------------------------------------------------------------------
\* Pure functions
\* ------------------------------------------------------------------------

\* IncidentType::from_str, manifold_markets.rs:86-96. "Err" is the Err(..)
\* of an unknown incident type.
IncidentType_from_str(s) ==
    CASE s = "minor" -> "Any"
      [] s = "major" -> "Any"
      [] s = "critical" -> "Red"
      [] OTHER -> "Err"

\* The payload of one bet request, main.rs:61-65.
bet_20_github_down(contract_id) ==
    [amount |-> BET_AMOUNT, outcome |-> "YES", contractId |-> contract_id,
     state |-> "pending"]

\* One round of `for _ in 0..5`, main.rs:175-178.
PushBets(h, ind, tgt) ==
    LET withRed ==
            IF ind = "critical"
            THEN Append(h, bet_20_github_down(tgt.red_contract_id))
            ELSE h
    IN Append(withRed, bet_20_github_down(tgt.contract_id))

\* The handles Vec after n rounds, main.rs:172-179.
RECURSIVE BuildHandles(_, _, _)
BuildHandles(n, ind, tgt) ==
    IF n = 0 THEN <<>>
    ELSE PushBets(BuildHandles(n - 1, ind, tgt), ind, tgt)

\* The date test of main.rs:166.
DateMatches(t, tgt) ==
    t[1] = tgt.month \/ t[2] = tgt.day

\* The futures of a batch that name the same contract id are identical
\* requests, so which of them completes is indistinguishable: the next one to
\* complete is taken to be the first of them still pending.
NextToComplete(h, i) ==
    /\ h[i].state = "pending"
    /\ \A j \in 1..(i - 1) :
         h[j].contractId = h[i].contractId => h[j].state # "pending"

\* Number of handles of h that name contract id c.
RECURSIVE CountFor(_, _)
CountFor(h, c) ==
    IF h = <<>> THEN 0
    ELSE (IF Head(h).contractId = c THEN 1 ELSE 0) + CountFor(Tail(h), c)

\* ExponentialBackoff: the randomized interval drawn for current interval
\* ci lies in [ci - delta, ci + delta]; the ends and the middle stand for
\* the draw.
RandomizedIntervals(ci) ==
    LET delta == (RANDOMIZATION_PERCENT * ci) \div 100
    IN {ci - delta, ci, ci + delta}

\* ExponentialBackoff::increment_current_interval.
IncrementCurrentInterval(ci) ==
    IF ci * MULTIPLIER_PERCENT >= MAX_INTERVAL_MILLIS * 100
    THEN MAX_INTERVAL_MILLIS
    ELSE (ci * MULTIPLIER_PERCENT) \div 100

\* ExponentialBackoff::get_elapsed_time after sleeping r and sending the
\* next GET: the clock's reading, at the model's resolution.
ElapsedAfter(el, r) ==
    ((el + r + ClockResolution - 1) \div ClockResolution) * ClockResolution

\* ExponentialBackoff::next_backoff with draw r: TRUE when it is Some(r),
\* FALSE when it is None (the max elapsed time is, or would be, exceeded).
NextBackoffIsSome(el, r) ==
    el <= MAX_ELAPSED_TIME_MILLIS /\ el + r <= MAX_ELAPSED_TIME_MILLIS

\* ------------------------------------------------------------------------
\* Initial state: main.rs:122-137, at the head of the loop
\* ------------------------------------------------------------------------

Init ==
    /\ clock \in 1..Len(Calendar)
    /\ pc = "loop"
    /\ attempts = 0
    /\ reply = ""
    /\ current_interval = INITIAL_INTERVAL_MILLIS
    /\ elapsed = 0
    /\ indicator = ""
    /\ today = <<0, 0>>
    /\ target_i = 0
    /\ handles = <<>>
    /\ failure = ""
    /\ dispatched = [c \in ContractIds |-> 0]
    /\ placed = [c \in ContractIds |-> 0]
    /\ wagered = {}
    /\ process = "running"
    /\ upc = "lock_log"
    /\ lock = "free"
    /\ target_markets = {}
    /\ markets = <<>>
    /\ market_i = 0
    /\ target = NoTarget
    /\ waiters = <<>>
    /\ fetch_error = ""
    /\ prune_today = <<0, 0>>
    /\ pruned = {}
    /\ spc = "idle"

\* ------------------------------------------------------------------------
\* The environment
\* ------------------------------------------------------------------------

\* Midnight UTC passes while the process runs.
Midnight ==
    /\ process = "running"
    /\ clock < Len(Calendar)
    /\ clock' = clock + 1
    /\ UNCHANGED <<scanVars, updVars, process>>

\* ------------------------------------------------------------------------
\* get_incident_status, main.rs:89-119 (the same as github_status.rs:35-63)
\* ------------------------------------------------------------------------

\* main.rs:140, 92-97, 116: a call starts with a fresh default backoff and
\* sends its first GET.
CallGetIncidentStatus ==
    /\ pc = "loop"
    /\ pc' = "await_status"
    /\ attempts' = 1
    /\ reply' = ""
    /\ current_interval' = INITIAL_INTERVAL_MILLIS
    /\ elapsed' = 0
    /\ UNCHANGED <<clock, indicator, today, target_i, betVars, failure>>
    /\ UNCHANGED updVars

\* main.rs:100-106, 116: the feed answers 429, a transient error. The retry
\* combinator asks the backoff for the next wait: Some(r) sleeps r and sends
\* the GET again, None returns the 429 error, which main propagates
\* (main.rs:140), dropping the backoff.
StatusRateLimited ==
    /\ pc = "await_status"
    /\ \E r \in RandomizedIntervals(current_interval) :
         IF NextBackoffIsSome(elapsed, r)
         THEN /\ elapsed' = ElapsedAfter(elapsed, r)
              /\ attempts' = attempts + 1
              /\ UNCHANGED <<pc, failure>>
              /\ current_interval' = IncrementCurrentInterval(current_interval)
         ELSE /\ pc' = "failed"
              /\ failure' = "429"
              /\ current_interval' = INITIAL_INTERVAL_MILLIS
              /\ elapsed' = 0
              /\ UNCHANGED attempts
    /\ reply' = "429"
    /\ UNCHANGED <<clock, indicator, today, target_i, betVars>>
    /\ UNCHANGED updVars

\* StatusPermanentFailure with the error classified as transient: the call
\* sleeps and sends the GET again.
StatusPermanentFailure_Retried ==
    /\ pc = "await_status"
    /\ \E kind \in PermanentFailures : reply' = kind
    /\ attempts' = attempts + 1
    /\ UNCHANGED <<clock, pc, current_interval, elapsed, indicator, today,
                   target_i, betVars, failure>>
    /\ UNCHANGED updVars

\* main.rs:99, 107-109, 113: a transport error, another non-success status
\* or an undecodable body is a permanent error: retry returns it at once and
\* main propagates it (main.rs:140), dropping the backoff.
StatusPermanentFailure ==
    /\ pc = "await_status"
    /\ \E kind \in PermanentFailures : reply' = kind /\ failure' = kind
    /\ pc' = "failed"
    /\ current_interval' = INITIAL_INTERVAL_MILLIS
    /\ elapsed' = 0
    /\ UNCHANGED <<clock, attempts, indicator, today, target_i, betVars>>
    /\ UNCHANGED updVars

\* main.rs:111-113, 116-118, 140: a success status with a decodable body;
\* the call returns the envelope and its backoff is dropped.
StatusOk ==
    /\ pc = "await_status"
    /\ \E ind \in Indicators : indicator' = ind
    /\ pc' = "got_status"
    /\ attempts' = 0
    /\ reply' = "ok"
    /\ current_interval' = INITIAL_INTERVAL_MILLIS
    /\ elapsed' = 0
    /\ UNCHANGED <<clock, today, target_i, betVars, failure>>
    /\ UNCHANGED updVars

\* ------------------------------------------------------------------------
\* main, main.rs:139-193
\* ------------------------------------------------------------------------

\* main.rs:141-145: nothing to do, sleep the poll interval and continue.
NoIncident ==
    /\ pc = "got_status"
    /\ indicator = "none"
    /\ pc' = "loop"
    /\ UNCHANGED <<clock, pollVars, indicator, today, target_i, betVars, failure>>
    /\ UNCHANGED updVars

\* main.rs:147-158: an incident; read the date and enter the target loop.
IncidentDetected ==
    /\ pc = "got_status"
    /\ indicator # "none"
    /\ today' = Calendar[clock]
    /\ target_i' = 1
    /\ pc' = "for_target"
    /\ UNCHANGED <<clock, pollVars, indicator, betVars, failure>>
    /\ UNCHANGED updVars

\* main.rs:166-181: the date test passes; build the batch and start
\* try_join_all, which polls every future and so sends every request.
DispatchBets ==
    /\ pc = "for_target"
    /\ target_i <= Len(TARGETS)
    /\ DateMatches(today, TARGETS[target_i])
    /\ handles' = BuildHandles(BETS_PER_TARGET, indicator, TARGETS[target_i])
    /\ dispatched' =
         [c \in ContractIds |-> dispatched[c] + CountFor(handles', c)]
    /\ pc' = "join"
    /\ UNCHANGED <<clock, pollVars, indicator, today, target_i, placed,
                   wagered, failure>>
    /\ UNCHANGED updVars

\* main.rs:185-191 and 158, 139: the date test fails; sleep the poll
\* interval and go on to the next target, or back to the head of the loop
\* after the last one.
TargetDoesNotMatch ==
    /\ pc = "for_target"
    /\ target_i <= Len(TARGETS)
    /\ ~DateMatches(today, TARGETS[target_i])
    /\ IF target_i < Len(TARGETS)
       THEN target_i' = target_i + 1 /\ pc' = pc
       ELSE target_i' = 0 /\ pc' = "loop"
    /\ UNCHANGED <<clock, pollVars, indicator, today, betVars, failure>>
    /\ UNCHANGED updVars

\* main.rs:75-79: the venue accepts one request of the batch.
BetPlaced ==
    /\ pc = "join"
    /\ \E i \in 1..Len(handles) :
         /\ NextToComplete(handles, i)
         /\ handles' = [handles EXCEPT ![i].state = "ok"]
         /\ placed' =
              [placed EXCEPT ![handles[i].contractId] = @ + 1]
    /\ UNCHANGED <<clock, pc, pollVars, indicator, today, target_i,
                   dispatched, wagered, failure>>
    /\ UNCHANGED updVars

\* BetFailed with the error swallowed: the loop goes on to its next cycle.
BetFailed_Swallowed ==
    /\ pc = "join"
    /\ \E i \in 1..Len(handles) :
         /\ NextToComplete(handles, i)
         /\ handles' = [handles EXCEPT ![i].state = "err"]
    /\ pc' = "loop"
    /\ UNCHANGED <<clock, pollVars, indicator, today, target_i,
                   dispatched, placed, wagered, failure>>
    /\ UNCHANGED updVars

\* main.rs:73, 80 and 181: one request of the batch fails; try_join_all
\* returns that error, the other futures are dropped, main returns.
BetFailed ==
    /\ pc = "join"
    /\ \E i \in 1..Len(handles) :
         /\ NextToComplete(handles, i)
         /\ handles' = [handles EXCEPT ![i].state = "err"]
    /\ pc' = "failed"
    /\ failure' = "bet"
    /\ UNCHANGED <<clock, pollVars, indicator, today, target_i,
                   dispatched, placed, wagered>>
    /\ UNCHANGED updVars

\* BetsJoined with a sleep that returns: the loop goes on to its next cycle.
BetsJoined_SleepReturns ==
    /\ pc = "join"
    /\ \A i \in 1..Len(handles) : handles[i].state = "ok"
    /\ wagered' =
         wagered \cup {handles[i].contractId : i \in 1..Len(handles)}
    /\ pc' = "loop"
    /\ UNCHANGED <<clock, pollVars, indicator, today, target_i, handles,
                   dispatched, placed, failure>>
    /\ UNCHANGED updVars

\* main.rs:181-184: every request of the batch succeeded; log "bets placed"
\* and sleep u64::MAX seconds, which main never wakes from.
BetsJoined ==
    /\ pc = "join"
    /\ \A i \in 1..Len(handles) : handles[i].state = "ok"
    /\ wagered' =
         wagered \cup {handles[i].contractId : i \in 1..Len(handles)}
    /\ pc' = "sleep_forever"
    /\ UNCHANGED <<clock, pollVars, indicator, today, target_i, handles,
                   dispatched, placed, failure>>
    /\ UNCHANGED updVars

\* ------------------------------------------------------------------------
\* TargetMarkets and update_targets, manifold_markets.rs:209-315
\* ------------------------------------------------------------------------

\* is_any_incident_market without the test of the creator.
is_any_incident_market_AnyAuthor(market) ==
    market.any_phrase

\* Market::is_any_incident_market, manifold_markets.rs:134-137.
is_any_incident_market(market) ==
    /\ market.creator_id \in {IBLUE_CREATOR_ID, ALEXTES_CREATOR_ID}
    /\ market.any_phrase

\* Market::is_red_incident_market, manifold_markets.rs:139-142.
is_red_incident_market(market) ==
    /\ market.creator_id \in {IBLUE_CREATOR_ID, ALEXTES_CREATOR_ID}
    /\ market.red_phrase

\* TargetIndicident::is_past: the target's date lies before date t.
is_past(t, tg) ==
    tg.month < t[1] \/ (tg.month = t[1] /\ tg.day < t[2])

\* TargetMarkets::add_new_target, manifold_markets.rs:214-216: HashMap
\* insert, replacing an entry of the same key.
add_new_target(tm, tg) ==
    {x \in tm : x.contract_id # tg.contract_id} \cup {tg}

\* TargetMarkets::target_exists, manifold_markets.rs:218-220.
target_exists(tm, contract_id) ==
    \E x \in tm : x.contract_id = contract_id

\* clear_old_targets with `*month >= today.month()` alone: the days of the
\* current month that have passed stay.
clear_old_targets_MonthOnly(tm, t) ==
    {x \in tm : x.month >= t[1]}

\* clear_old_targets with `*day > today.day()`: today's targets go as well.
clear_old_targets_StrictDay(tm, t) ==
    {x \in tm : x.month > t[1] \/ (x.month = t[1] /\ x.day > t[2])}

\* TargetMarkets::clear_old_targets, manifold_markets.rs:222-229, at date t.
clear_old_targets(tm, t) ==
    {x \in tm : x.month > t[1] \/ (x.month = t[1] /\ x.day >= t[2])}

\* The positions of update_targets at a target_markets.lock().await.
LockPoints == {"lock_log", "lock_clear", "lock_exists", "lock_add"}

\* The position of a queued lock().await, and the position under its guard.
WaitPoint(p) ==
    CASE p = "lock_log" -> "wait_log"
      [] p = "lock_clear" -> "wait_clear"
      [] p = "lock_exists" -> "wait_exists"
      [] p = "lock_add" -> "wait_add"

GuardPoint(p) ==
    CASE p \in {"lock_log", "wait_log"} -> "log"
      [] p \in {"lock_clear", "wait_clear"} -> "clear"
      [] p \in {"lock_exists", "wait_exists"} -> "exists"
      [] p \in {"lock_add", "wait_add"} -> "add"

WaitPoints == {WaitPoint(p) : p \in LockPoints}

\* Drop of a MutexGuard: the Mutex goes to the task that has waited longest,
\* or is free.
DropGuard ==
    IF waiters = <<>>
    THEN lock' = "free" /\ waiters' = waiters
    ELSE lock' = Head(waiters) /\ waiters' = Tail(waiters)

\* target_markets.lock().await, manifold_markets.rs:243, 249, 268-270, 277:
\* the Updater takes the free Mutex, or queues for it.
UpdaterLock ==
    /\ upc \in LockPoints
    /\ IF lock = "free"
       THEN /\ lock' = "updater"
            /\ upc' = GuardPoint(upc)
            /\ waiters' = waiters
       ELSE /\ waiters' = Append(waiters, "updater")
            /\ upc' = WaitPoint(upc)
            /\ lock' = lock
    /\ UNCHANGED <<clock, scanVars, target_markets, markets, market_i, target,
                   fetch_error, prune_today, pruned, spc>>

\* The same lock().await resumes: the Mutex was handed to the queued Updater.
UpdaterLockGranted ==
    /\ upc \in WaitPoints
    /\ lock = "updater"
    /\ \A i \in 1..Len(waiters) : waiters[i] # "updater"
    /\ upc' = GuardPoint(upc)
    /\ UNCHANGED <<clock, scanVars, lock, waiters, target_markets, markets,
                   market_i, target, fetch_error, prune_today, pruned, spc>>

\* LogTargets with the guard bound to a variable of the loop body: it is
\* still held when the listing request is sent.
LogTargets_KeepsGuard ==
    /\ upc = "log"
    /\ upc' = "fetch"
    /\ UNCHANGED <<clock, scanVars, lock, waiters, target_markets, markets,
                   market_i, target, fetch_error, prune_today, pruned, spc>>

\* manifold_markets.rs:243-247: log the current targets under the guard,
\* drop it and send the listing request.
LogTargets ==
    /\ upc = "log"
    /\ DropGuard
    /\ upc' = "fetch"
    /\ UNCHANGED <<clock, scanVars, target_markets, markets, market_i, target,
                   fetch_error, prune_today, pruned, spc>>

\* manifold_markets.rs:161-173, 247: the listing arrives.
FetchMarketsOk ==
    /\ upc = "fetch"
    /\ \E l \in Listings : markets' = l
    /\ upc' = "lock_clear"
    /\ UNCHANGED <<clock, scanVars, lock, waiters, target_markets, market_i,
                   target, fetch_error, prune_today, pruned, spc>>

\* fetch_markets failing, with `?` replaced by a log line: update_targets
\* sleeps and lists again.
FetchMarketsErr_Ignored ==
    /\ upc = "fetch"
    /\ fetch_error' \in {"transport", "status", "decode"}
    /\ upc' = "sleep"
    /\ UNCHANGED <<clock, scanVars, lock, waiters, target_markets, markets,
                   market_i, target, prune_today, pruned, spc>>

\* manifold_markets.rs:167, 171, 174, 247: a transport error, a non-success
\* status or an undecodable body; `?` returns the error from update_targets.
FetchMarketsErr ==
    /\ upc = "fetch"
    /\ fetch_error' \in {"transport", "status", "decode"}
    /\ upc' = "failed"
    /\ UNCHANGED <<clock, scanVars, lock, waiters, target_markets, markets,
                   market_i, target, prune_today, pruned, spc>>

\* The step of the market loop after market i: the next market, or the
\* sleep of manifold_markets.rs:313 after the last one.
AfterMarket(i) ==
    IF i < Len(markets)
    THEN market_i' = i + 1 /\ upc' = "market"
    ELSE market_i' = 0 /\ upc' = "sleep"

\* manifold_markets.rs:249-251: prune under the guard, drop it and enter the
\* market loop.
ClearOldTargets ==
    /\ upc = "clear"
    /\ prune_today' = Calendar[clock]
    /\ target_markets' = clear_old_targets(target_markets, Calendar[clock])
    /\ pruned' = target_markets \ target_markets'
    /\ DropGuard
    /\ AfterMarket(0)
    /\ UNCHANGED <<clock, scanVars, markets, target, fetch_error, spc>>

\* ExamineMarket without `if target.is_past() { continue; }`.
ExamineMarket_NoPastTest ==
    /\ upc = "market"
    /\ LET market == markets[market_i]
           tg == [contract_id |-> market.id,
                  day |-> market.day,
                  incident_type |->
                      IF is_any_incident_market(market) THEN "Any" ELSE "Red",
                  month |-> market.month]
       IN IF ~is_any_incident_market(market) /\ ~is_red_incident_market(market)
          THEN AfterMarket(market_i) /\ target' = NoTarget
          ELSE IF market.day = 0 \/ market.month = 0
          THEN upc' = "panicked" /\ UNCHANGED <<market_i, target>>
          ELSE upc' = "lock_exists" /\ target' = tg /\ UNCHANGED market_i
    /\ UNCHANGED <<clock, scanVars, lock, waiters, target_markets, markets,
                   fetch_error, prune_today, pruned, spc>>

\* ExamineMarket with `continue` in the place of the two expect calls.
ExamineMarket_SkipsUnparsable ==
    /\ upc = "market"
    /\ LET market == markets[market_i]
           tg == [contract_id |-> market.id,
                  day |-> market.day,
                  incident_type |->
                      IF is_any_incident_market(market) THEN "Any" ELSE "Red",
                  month |-> market.month]
       IN IF ~is_any_incident_market(market) /\ ~is_red_incident_market(market)
          THEN AfterMarket(market_i) /\ target' = NoTarget
          ELSE IF market.day = 0 \/ market.month = 0
          THEN AfterMarket(market_i) /\ target' = NoTarget
          ELSE IF is_past(Calendar[clock], tg)
          THEN AfterMarket(market_i) /\ target' = NoTarget
          ELSE upc' = "lock_exists" /\ target' = tg /\ UNCHANGED market_i
    /\ UNCHANGED <<clock, scanVars, lock, waiters, target_markets, markets,
                   fetch_error, prune_today, pruned, spc>>

\* manifold_markets.rs:252-266 and 281-295: classify the market, build its
\* target and test its date. expect panics when the question gives no day
\* or no month.
ExamineMarket ==
    /\ upc = "market"
    /\ LET market == markets[market_i]
           tg == [contract_id |-> market.id,
                  day |-> market.day,
                  incident_type |->
                      IF is_any_incident_market(market) THEN "Any" ELSE "Red",
                  month |-> market.month]
       IN IF ~is_any_incident_market(market) /\ ~is_red_incident_market(market)
          THEN AfterMarket(market_i) /\ target' = NoTarget
          ELSE IF market.day = 0 \/ market.month = 0
          THEN upc' = "panicked" /\ UNCHANGED <<market_i, target>>
          ELSE IF is_past(Calendar[clock], tg)
          THEN AfterMarket(market_i) /\ target' = NoTarget
          ELSE upc' = "lock_exists" /\ target' = tg /\ UNCHANGED market_i
    /\ UNCHANGED <<clock, scanVars, lock, waiters, target_markets, markets,
                   fetch_error, prune_today, pruned, spc>>

\* TargetExists with the guard of the test alive in the block that
\* follows, as in a `match` on the locked value.
TargetExists_KeepsGuard ==
    /\ upc = "exists"
    /\ IF target_exists(target_markets, target.contract_id)
       THEN DropGuard /\ AfterMarket(market_i) /\ target' = NoTarget
       ELSE upc' = "lock_add" /\ UNCHANGED <<lock, waiters, market_i, target>>
    /\ UNCHANGED <<clock, scanVars, target_markets, markets, fetch_error,
                   prune_today, pruned, spc>>

\* TargetExists without the test: every target goes on to the insert.
TargetExists_NeverFound ==
    /\ upc = "exists"
    /\ DropGuard
    /\ upc' = "lock_add"
    /\ UNCHANGED <<market_i, target>>
    /\ UNCHANGED <<clock, scanVars, target_markets, markets, fetch_error,
                   prune_today, pruned, spc>>

\* TargetExists with the test negated.
TargetExists_Negated ==
    /\ upc = "exists"
    /\ DropGuard
    /\ IF ~target_exists(target_markets, target.contract_id)
       THEN AfterMarket(market_i) /\ target' = NoTarget
       ELSE upc' = "lock_add" /\ UNCHANGED <<market_i, target>>
    /\ UNCHANGED <<clock, scanVars, target_markets, markets, fetch_error,
                   prune_today, pruned, spc>>

\* manifold_markets.rs:268-274 and 297-303: test for the key under the
\* guard and drop it.
TargetExists ==
    /\ upc = "exists"
    /\ DropGuard
    /\ IF target_exists(target_markets, target.contract_id)
       THEN AfterMarket(market_i) /\ target' = NoTarget
       ELSE upc' = "lock_add" /\ UNCHANGED <<market_i, target>>
    /\ UNCHANGED <<clock, scanVars, target_markets, markets, fetch_error,
                   prune_today, pruned, spc>>

\* manifold_markets.rs:276-277 and 305-306: insert under the guard and drop
\* it.
AddNewTarget ==
    /\ upc = "add"
    /\ target_markets' = add_new_target(target_markets, target)
    /\ DropGuard
    /\ target' = NoTarget
    /\ AfterMarket(market_i)
    /\ UNCHANGED <<clock, scanVars, markets, fetch_error, prune_today, pruned, spc>>

\* manifold_markets.rs:313, 240: the interval has passed.
UpdaterWakes ==
    /\ upc = "sleep"
    /\ upc' = "lock_log"
    /\ markets' = <<>>
    /\ prune_today' = <<0, 0>>
    /\ pruned' = {}
    /\ UNCHANGED <<clock, scanVars, lock, waiters, target_markets, market_i,
                   target, fetch_error, spc>>

\* ------------------------------------------------------------------------
\* The reader of the registry: the match step of the scanner, which takes
\* the same Mutex for one snapshot of the targets. "idle" is every other
\* position of the scanner: a status poll, a bet batch or a sleep.
\* ------------------------------------------------------------------------

ScanLock ==
    /\ spc = "idle"
    /\ IF lock = "free"
       THEN lock' = "scanner" /\ spc' = "snapshot" /\ waiters' = waiters
       ELSE /\ waiters' = Append(waiters, "scanner")
            /\ spc' = "wait"
            /\ lock' = lock
    /\ UNCHANGED <<clock, scanVars, upc, target_markets, markets, market_i,
                   target, fetch_error, prune_today, pruned>>

ScanLockGranted ==
    /\ spc = "wait"
    /\ lock = "scanner"
    /\ \A i \in 1..Len(waiters) : waiters[i] # "scanner"
    /\ spc' = "snapshot"
    /\ UNCHANGED <<clock, scanVars, upc, lock, waiters, target_markets,
                   markets, market_i, target, fetch_error, prune_today, pruned>>

ScanSnapshot ==
    /\ spc = "snapshot"
    /\ DropGuard
    /\ spc' = "idle"
    /\ UNCHANGED <<clock, scanVars, upc, target_markets, markets, market_i,
                   target, fetch_error, prune_today, pruned>>

\* ------------------------------------------------------------------------
\* The process
\* ------------------------------------------------------------------------

\* main has returned: `?` of main.rs:140 and 181.
OrchestratorTerminated == pc = "failed"

\* update_targets has ended: with the error of manifold_markets.rs:247, or
\* by a panic of manifold_markets.rs:256-259, 285-288.
UpdaterTerminated_ErrOnly == upc = "failed"

UpdaterTerminated == upc \in {"failed", "panicked"}

\* The top-level join: the process ends with the first task that ends.
ProcessFollows ==
    process' =
        IF OrchestratorTerminated' \/ UpdaterTerminated'
        THEN "exited"
        ELSE process

\* A step of a task of the running process.
Task(A) ==
    /\ process = "running"
    /\ A
    /\ ProcessFollows

Next ==
    \/ Midnight
    \/ Task(CallGetIncidentStatus)
    \/ Task(StatusRateLimited)
    \/ Task(StatusPermanentFailure)
    \/ Task(StatusOk)
    \/ Task(NoIncident)
    \/ Task(IncidentDetected)
    \/ Task(DispatchBets)
    \/ Task(TargetDoesNotMatch)
    \/ Task(BetPlaced)
    \/ Task(BetFailed)
    \/ Task(BetsJoined)

\* main.rs alone: the scan loop is the whole process.
Spec == Init /\ [][Next]_vars

\* Most 429 answers in a row the status feed gives while both tasks run.
MaxRateLimited == 2

\* Longest listing the venue returns while both tasks run.
MaxProcListing == 1

ProcNext ==
    \/ Midnight
    \/ Task(CallGetIncidentStatus)
    \/ Task(StatusRateLimited) /\ attempts <= MaxRateLimited
    \/ Task(StatusPermanentFailure)
    \/ Task(StatusOk)
    \/ Task(NoIncident)
    \/ Task(IncidentDetected)
    \/ Task(DispatchBets)
    \/ Task(TargetDoesNotMatch)
    \/ Task(BetPlaced)
    \/ Task(BetFailed)
    \/ Task(BetsJoined)
    \/ Task(UpdaterLock)
    \/ Task(LogTargets)
    \/ /\ Task(FetchMarketsOk)
       /\ Len(markets') <= MaxProcListing
       /\ \A i \in 1..Len(markets') : markets'[i] \in CoreMarkets
    \/ Task(FetchMarketsErr)
    \/ Task(ClearOldTargets)
    \/ Task(ExamineMarket)
    \/ Task(TargetExists)
    \/ Task(AddNewTarget)
    \/ Task(UpdaterWakes)

\* The Updater and the scan loop as the two tasks of one process.
ProcSpec == Init /\ [][ProcNext]_vars

\* The steps of update_targets.
UpdaterStep ==
    \/ Task(UpdaterLock)
    \/ Task(UpdaterLockGranted)
    \/ Task(LogTargets)
    \/ Task(FetchMarketsOk)
    \/ Task(FetchMarketsErr)
    \/ Task(ClearOldTargets)
    \/ Task(ExamineMarket)
    \/ Task(TargetExists)
    \/ Task(AddNewTarget)
    \/ Task(UpdaterWakes)

\* The steps of the scanner once it has asked for the Mutex.
ScanStep ==
    \/ Task(ScanLockGranted)
    \/ Task(ScanSnapshot)

UpdNext ==
    \/ Midnight
    \/ UpdaterStep
    \/ Task(ScanLock)
    \/ ScanStep

\* The Updater starts on or after the second date of the calendar: it
\* treats every date before the first target's alike.
UpdInit ==
    /\ Init
    /\ clock > 1

\* The Updater beside a scanner that reads the registry. The runtime polls
\* every task that can run, and a request or a sleep that was started
\* ends: a task that can take a step takes it.
UpdSpec ==
    /\ UpdInit
    /\ [][UpdNext]_vars
    /\ WF_vars(UpdaterStep)
    /\ WF_vars(ScanStep)

\* ------------------------------------------------------------------------
\* Vocabulary of the properties
\* ------------------------------------------------------------------------

\* The incident class of a contract: contract_id is the "any incident"
\* contract of its target, red_contract_id the "red incident" one
\* (main.rs:24-25).
ContractClass(c) ==
    IF \E i \in 1..Len(TARGETS) : TARGETS[i].red_contract_id = c
    THEN "Red"
    ELSE "Any"

\* The target a contract id belongs to.
TargetOf(c) ==
    CHOOSE i \in 1..Len(TARGETS) :
        c \in {TARGETS[i].contract_id, TARGETS[i].red_contract_id}

\* The contracts whose (month, day, incident class) equals date t and the
\* class of indicator ind.
MatchedContracts(t, ind) ==
    {c \in ContractIds :
        /\ TARGETS[TargetOf(c)].month = t[1]
        /\ TARGETS[TargetOf(c)].day = t[2]
        /\ ContractClass(c) = IncidentType_from_str(ind)}

\* The fixed blackout dates of the scan loop. main.rs holds no such set; the
\* entry stands for any date of it.
DateExclusionCalendar == {<<8, 29>>}

\* ------------------------------------------------------------------------
\* Properties
\* ------------------------------------------------------------------------

\* C1: once the batch for a contract id has succeeded and the id is recorded
\* as wagered on, no later step sends a bet request for that contract id.
C1_AtMostOneEpisode ==
    [][\A c \in wagered : dispatched'[c] = dispatched[c]]_vars

\* C1 witness: a batch succeeded, its contract is recorded and main sleeps.
C1_Witness ==
    /\ pc = "sleep_forever"
    /\ \E c \in wagered : placed[c] = BETS_PER_TARGET

\* C2: a batch is dispatched on a target only if today's month equals the
\* target's month and today's day equals the target's day.
C2_DateIsConjunction ==
    handles # <<>> =>
        /\ today[1] = TARGETS[target_i].month
        /\ today[2] = TARGETS[target_i].day

\* C3: under a recognized indicator every bet request of the batch names a
\* contract whose incident class is the class of the indicator: none on a Red
\* contract under minor or major, none on an Any contract under critical.
C3_ClassIsExact ==
    IncidentType_from_str(indicator) # "Err" =>
        \A i \in 1..Len(handles) :
            ContractClass(handles[i].contractId)
                = IncidentType_from_str(indicator)

\* C4: a step in which a bet request of the batch fails ends main with that
\* error: the contract ids of the batch are not recorded as wagered on, the
\* bets already placed stay placed, and nothing is polled or dispatched from
\* then on.
C4_BatchFailureIsFatal ==
    [][(\E i \in 1..Len(handles') : handles'[i].state = "err") =>
          /\ pc' = "failed"
          /\ failure' = "bet"
          /\ \A i \in 1..Len(handles') : handles'[i].contractId \notin wagered'
          /\ placed' = placed
          /\ dispatched' = dispatched
          /\ attempts' = attempts]_vars

\* C4 witness: a batch failed after some of its bets were placed and while
\* others were still in flight.
C4_Witness ==
    /\ failure = "bet"
    /\ \E i, j \in 1..Len(handles) :
         /\ handles[i].state = "ok"
         /\ handles[j].state = "pending"
         /\ placed[handles[i].contractId] > 0

\* C5: when a cycle with an incident has joined its bets successfully, every
\* contract matching today's date and the indicator's class has received
\* exactly BETS_PER_TARGET requests, each YES for BET_AMOUNT, and is recorded
\* as wagered on.
C5_EveryMatchedTargetIsBet ==
    pc = "sleep_forever" =>
        \A c \in MatchedContracts(today, indicator) :
            /\ dispatched[c] = BETS_PER_TARGET
            /\ c \in wagered
            /\ \A i \in 1..Len(handles) :
                 handles[i].contractId = c =>
                    /\ handles[i].outcome = "YES"
                    /\ handles[i].amount = BET_AMOUNT

\* C6: while the date is in the exclusion calendar no step sends a GET to the
\* status feed and no step sends a bet request.
C6_CircuitBreaker ==
    [][Calendar[clock] \in DateExclusionCalendar =>
          /\ attempts' <= attempts
          /\ dispatched' = dispatched]_vars

\* C7: none leads to no bet, minor and major classify as Any, critical as
\* Red, and after a poll that returned any other indicator main has failed,
\* or is about to, without having dispatched a bet.
C7_IndicatorClassification ==
    /\ IncidentType_from_str("minor") = "Any"
    /\ IncidentType_from_str("major") = "Any"
    /\ IncidentType_from_str("critical") = "Red"
    /\ indicator = "none" => handles = <<>>
    /\ indicator \notin {"", "none", "minor", "major", "critical"} =>
          /\ pc \in {"got_status", "failed"}
          /\ handles = <<>>

\* C8: get_incident_status never returns a failure caused by 429 alone.
C8_RateLimitIsInvisible ==
    failure # "429"

\* C9: a GET that ends in a transport failure, a non-success status other
\* than 429 or a decode failure ends the call, and main, with that error, and
\* the call sends no GET after it.
C9_PermanentFailureEndsCall ==
    [][reply' \in PermanentFailures =>
          /\ pc' = "failed"
          /\ failure' = reply'
          /\ attempts' = attempts]_vars

\* C9 witness: a permanent failure on a retry that followed 429 answers.
C9_Witness ==
    /\ reply \in PermanentFailures
    /\ pc = "failed"
    /\ attempts > 2

TrustedAuthors == {IBLUE_CREATOR_ID, ALEXTES_CREATOR_ID}

\* Market m carries the recognized phrase of incident class c.
HasPhraseOf(m, c) ==
    \/ c = "Any" /\ m.any_phrase
    \/ c = "Red" /\ m.red_phrase

\* Date <<month, day>> d lies strictly before date t.
Before(d, t) ==
    d[1] < t[1] \/ (d[1] = t[1] /\ d[2] < t[2])

\* The date of a registry entry or of a market.
DateOf(x) == <<x.month, x.day>>

\* C11: every entry of the registry carries the id, the day and the month
\* of a market of a trusted author whose question holds the recognized
\* phrase of the entry's incident class; so a market of another author, or
\* one without a recognized phrase, has no entry.
C11_EntriesComeFromTrustedPhrasedMarkets ==
    \A x \in target_markets :
        \E m \in MarketUniverse :
            /\ m.id = x.contract_id
            /\ m.creator_id \in TrustedAuthors
            /\ HasPhraseOf(m, x.incident_type)
            /\ DateOf(m) = DateOf(x)

\* C11 witness: a cycle has ended whose listing held a market of another
\* author next to a market that was registered.
C11_Witness ==
    /\ upc = "sleep"
    /\ \E i \in 1..Len(markets) :
           /\ markets[i].creator_id \notin TrustedAuthors
           /\ markets[i].any_phrase
    /\ \E i \in 1..Len(markets) :
           \E x \in target_markets :
               /\ x.contract_id = markets[i].id
               /\ markets[i].creator_id \in TrustedAuthors

\* C12: a prune at date t drops exactly the entries dated before t (an
\* earlier month, or the same month and an earlier day) and keeps every
\* other entry as it was.
C12_PruneDropsExactlyThePast ==
    [][(upc = "clear" /\ upc' # "clear") =>
          /\ target_markets' \subseteq target_markets
          /\ \A x \in target_markets :
                 x \in target_markets' <=> ~Before(DateOf(x), Calendar[clock])
      ]_vars

\* C12 witness: the latest prune dropped an entry and kept one dated today.
C12_Witness ==
    /\ pruned # {}
    /\ \E x \in target_markets :
           /\ DateOf(x) = prune_today
           /\ \A y \in pruned : y.contract_id # x.contract_id

\* update_targets arrives at the sleep of manifold_markets.rs:313.
CycleEnds == upc # "sleep" /\ upc' = "sleep"

\* The scanner's words for a market that update_targets turns into a
\* target: a trusted author and a recognized phrase.
Classifies(m) ==
    /\ m.creator_id \in TrustedAuthors
    /\ m.any_phrase \/ m.red_phrase

\* update_targets leaves the market it examines.
ExaminesMarket ==
    /\ upc = "market"
    /\ <<upc, market_i>>' # <<upc, market_i>>

\* C13 as stated: when a cycle ends, no entry is dated before the date of
\* that moment, also when the date has advanced during the cycle.
C13_NoPastEntryAtCycleEnd ==
    [][CycleEnds =>
          \A x \in target_markets' : ~Before(DateOf(x), Calendar[clock'])
      ]_vars

\* C13 amended: when a cycle ends, no entry is dated before the date that
\* the prune of this cycle read.
C13_NoEntryBeforePruneDateAtCycleEnd ==
    [][CycleEnds =>
          \A x \in target_markets' : ~Before(DateOf(x), prune_today')
      ]_vars

\* C13 witness: the Updater sleeps after a cycle that pruned on an earlier
\* date than the current one, and an entry is dated before the current date.
C13_Witness ==
    /\ upc = "sleep"
    /\ Before(prune_today, Calendar[clock])
    /\ \E x \in target_markets :
           /\ Before(DateOf(x), Calendar[clock])
           /\ ~Before(DateOf(x), prune_today)

\* C14: a market that update_targets examines on a date after the market's
\* own is dropped there: no target is built from it and the registry stays
\* as it is; and what an insert adds is the target built by the examination.
C14_PastMarketIsNeverInserted ==
    [][/\ (ExaminesMarket
             /\ Before(DateOf(markets[market_i]), Calendar[clock])) =>
              /\ target' = NoTarget
              /\ target_markets' = target_markets
       /\ target_markets' \subseteq target_markets \cup {target}
       /\ target' \in {target, NoTarget} \/ ExaminesMarket
      ]_vars

\* C14 witness: a cycle has ended whose listing held a classified market
\* dated before the day of the cycle's prune, and the market has no entry.
C14_Witness ==
    /\ upc = "sleep"
    /\ \E i \in 1..Len(markets) :
           /\ Classifies(markets[i])
           /\ markets[i].day # 0 /\ markets[i].month # 0
           /\ Before(DateOf(markets[i]), prune_today)
           /\ \A x \in target_markets : x.contract_id # markets[i].id

\* C15: a failed listing ends update_targets with the error; from the head
\* of a cycle to the listing, and after the failure, the registry is not
\* changed, so the failed cycle leaves it as the cycle found it.
C15_ListingFailureIsFatal ==
    [][/\ fetch_error' # fetch_error => upc = "fetch" /\ upc' = "failed"
       /\ upc = "failed" => upc' = "failed"
       /\ upc \in {"lock_log", "wait_log", "log", "fetch", "failed"} =>
              target_markets' = target_markets
      ]_vars

\* C15 witness: update_targets has ended on a listing failure while the
\* registry holds an entry.
C15_Witness ==
    /\ upc = "failed"
    /\ fetch_error = "status"
    /\ target_markets # {}

\* C16: a market of a trusted author with a recognized phrase, whose
\* question gives no day or no month, ends update_targets where it is
\* examined: no later market is examined and the registry changes no more.
C16_UnparsableDateIsFatal ==
    [][/\ (ExaminesMarket
             /\ Classifies(markets[market_i])
             /\ (markets[market_i].day = 0 \/ markets[market_i].month = 0)) =>
              upc' = "panicked"
       /\ upc = "panicked" =>
              /\ upc' = "panicked"
              /\ market_i' = market_i
              /\ target_markets' = target_markets
      ]_vars

\* C16 witness: update_targets has panicked at a market without a month
\* while a later market of the listing is left unexamined.
C16_Witness ==
    /\ upc = "panicked"
    /\ market_i < Len(markets)
    /\ markets[market_i].month = 0

\* The positions of update_targets under a guard of the Mutex.
GuardPoints == {GuardPoint(p) : p \in LockPoints}

\* C17: while update_targets awaits the listing or its sleep it does not
\* hold the Mutex, and the scanner does not hold it while it polls, bets or
\* sleeps.
C17_NoLockAcrossNetworkOrSleep ==
    /\ upc \in {"fetch", "sleep"} => lock # "updater"
    /\ spc = "idle" => lock # "scanner"

\* C17 witness: update_targets awaits the listing after a cycle that
\* registered a target, and the scanner holds the Mutex meanwhile.
C17_Witness ==
    /\ upc = "fetch"
    /\ target_markets # {}
    /\ lock = "scanner"
    /\ spc = "snapshot"

\* An entry of the registry with contract id c.
Registered(c) == \E x \in target_markets : x.contract_id = c

\* C19: the registry holds one entry per contract id, and no step changes
\* an entry whose contract id stays in the registry: an entry is as it was
\* inserted until a prune drops it.
C19_EntriesAreImmutable ==
    [][/\ \A x \in target_markets :
              Registered(x.contract_id)' => x \in target_markets'
       /\ \A x, y \in target_markets' :
              x.contract_id = y.contract_id => x = y
      ]_vars

\* C19 witness: a cycle has ended whose listing held, for the contract id
\* of an entry, a classified market of another date that is not past.
C19_Witness ==
    /\ upc = "sleep"
    /\ \E x \in target_markets :
           \E i \in 1..Len(markets) :
               /\ markets[i].id = x.contract_id
               /\ Classifies(markets[i])
               /\ DateOf(markets[i]) # DateOf(x)
               /\ ~Before(DateOf(markets[i]), Calendar[clock])

\* C20: a task that asks for the Mutex does not hold it, and a task that
\* is queued for the Mutex gets it.
C20_LockIsDeadlockFree ==
    /\ [][/\ (upc \in LockPoints /\ upc' # upc) => lock # "updater"
          /\ (spc = "idle" /\ spc' # spc) => lock # "scanner"
         ]_vars
    /\ (upc \in WaitPoints) ~> (lock = "updater")
    /\ (spc = "wait") ~> (lock = "scanner")

\* C20 witness: the Mutex was handed to update_targets, which had queued
\* for it behind the scanner, and the scanner is queued behind it in turn.
C20_Witness ==
    /\ upc \in WaitPoints
    /\ lock = "updater"
    /\ waiters = <<"scanner">>

\* Market m is a target on date t: a trusted author, a recognized phrase, a
\* day and a month, and a date that has not passed on t.
Qualifies(m, t) ==
    /\ Classifies(m)
    /\ m.day # 0 /\ m.month # 0
    /\ ~Before(DateOf(m), t)

\* The markets of the venue that are targets on some date.
TargetMarketsOfVenue ==
    {m \in MarketUniverse : Classifies(m) /\ m.day # 0 /\ m.month # 0}

\* The listing of this cycle has arrived and holds market m, which
\* qualifies today and has no entry under its contract id.
ListedUnregistered(m) ==
    /\ upc = "lock_clear"
    /\ \E i \in 1..Len(markets) : markets[i] = m
    /\ Qualifies(m, Calendar[clock])
    /\ ~Registered(m.id)

====
